---- MODULE Spec2Model ----
(***************************************************************************)
(* YouTube Context Analyzer: the background service worker                 *)
(* (src/background.js) and the popup (src/popup.js) as a state machine.    *)
(*                                                                         *)
(* An operation is one asynchronous request handler of the background     *)
(* message listener.  Each action is the code that runs between two        *)
(* awaits of that handler; the outcome of the awaited external call        *)
(* (storage read, script injection, HTTP fetch) is the action's input.     *)
(***************************************************************************)
EXTENDS Integers, Sequences, FiniteSets, TLC

VARIABLES
    storage,               \* chrome.storage.local: youtubeApiKey, geminiApiKey
    YOUTUBE_API_KEY,       \* background.js global (credential cache)
    GEMINI_API_KEY,        \* background.js global (credential cache)
    ops,                   \* the request handlers of the background listener
    inbox,                 \* requests sent by the popup, not yet received
    queue,                 \* messages sent to the popup, not yet received
    popupOpen,             \* whether a popup page is listening
    isProcessing,          \* popup.js global
    transcriptBtnDisabled, \* popup.js transcriptBtn.disabled
    commentsBtnDisabled,   \* popup.js commentsBtn.disabled
    pendingQuery,          \* popup: chrome.tabs.query callback outstanding
    env,                   \* the video of the active tab and the external services
    sel                    \* track selection on its own: input and result

vars == <<storage, YOUTUBE_API_KEY, GEMINI_API_KEY, ops, inbox, queue,
          popupOpen, isProcessing, transcriptBtnDisabled, commentsBtnDisabled,
          pendingQuery, env, sel>>

----------------------------------------------------------------------------
(* Bounds of the model *)

MaxTracks == 3
MaxPageTracks == 2
MaxPrefs == 2
MaxOps == 2
MaxComments == 11
MaxOver == 1
MaxEntries == 2
MaxLines == 2
MaxCommentsUI == 1
MaxTracksUI == 1
MaxLinesUI == 1
MaxEntriesUI == 1

(* Program constants *)

batchSize == 10
maxResultsDefault == 50
pageLimit == 100

----------------------------------------------------------------------------
(* Small helpers *)

Min(a, b) == IF a < b THEN a ELSE b

SeqsUpTo(S, n) == UNION {[1..k -> S] : k \in 0..n}

Null == "null"

\* JavaScript `v || null` on a stored string: undefined and "" become null.
OrNull(v) == IF v \in {"undefined", ""} THEN Null ELSE v

\* JavaScript truthiness of a key value held in a variable.
Truthy(v) == v \notin {Null, "undefined", ""}

----------------------------------------------------------------------------
(* Caption tracks and the track selection of fetchTranscriptFromPage *)

Langs == {"ta", "en", "fr"}
NoKind == ""
Kinds == {NoKind, "asr"}
NoUrl == 0
NoLang == <<>>

\* A video's caption tracks: ordered, not unique per language; the baseUrl
\* of a track is modelled by its position, so that every track has its own.
TrackListsUpTo(n) ==
    { [i \in 1..Len(s) |-> [languageCode |-> s[i][1], kind |-> s[i][2], baseUrl |-> i]] :
        s \in (SeqsUpTo(Langs \X Kinds, n) \ {<<>>}) }

TrackLists == TrackListsUpTo(MaxTracks)

PrefLists == SeqsUpTo(Langs, MaxPrefs)

defaultLangPrefs == <<"ta", "en">>

\* Array.prototype.find: the position of the first track with this language
\* and kind, 0 for undefined.
FindTrack(tracks, lang, kind) ==
    LET hits == {i \in 1..Len(tracks) :
                    tracks[i].languageCode = lang /\ tracks[i].kind = kind}
    IN IF hits = {} THEN 0 ELSE CHOOSE i \in hits : \A j \in hits : i <= j

\* lang + " (auto)" and plain lang, as <<language, suffix>>
AutoTag(lang) == <<lang, " (auto)">>
PlainTag(lang) == <<lang, "">>

\* The loop body with the asr branch ending the loop as the human branch does.
TrackLoopBodyBreakOnAsr(tracks, lang, acc) ==
    IF acc.done THEN acc
    ELSE LET track == FindTrack(tracks, lang, NoKind)
             asrTrack == FindTrack(tracks, lang, "asr")
         IN IF track # 0
            THEN [bestTrackUrl |-> tracks[track].baseUrl, foundLang |-> PlainTag(lang), done |-> TRUE]
            ELSE IF acc.bestTrackUrl = NoUrl /\ asrTrack # 0
                 THEN [bestTrackUrl |-> tracks[asrTrack].baseUrl, foundLang |-> AutoTag(lang), done |-> TRUE]
                 ELSE acc

\* The loop body looking for the asr track of the language first.
TrackLoopBodyAsrFirst(tracks, lang, acc) ==
    IF acc.done THEN acc
    ELSE LET track == FindTrack(tracks, lang, NoKind)
             asrTrack == FindTrack(tracks, lang, "asr")
         IN IF acc.bestTrackUrl = NoUrl /\ asrTrack # 0
            THEN [bestTrackUrl |-> tracks[asrTrack].baseUrl, foundLang |-> AutoTag(lang), done |-> FALSE]
            ELSE IF track # 0
                 THEN [bestTrackUrl |-> tracks[track].baseUrl, foundLang |-> PlainTag(lang), done |-> TRUE]
                 ELSE acc

\* One iteration of `for (const lang of langPrefs)`; acc.done is the break.
TrackLoopBody(tracks, lang, acc) ==
    IF acc.done THEN acc
    ELSE LET track == FindTrack(tracks, lang, NoKind)
             asrTrack == FindTrack(tracks, lang, "asr")
         IN IF track # 0
            THEN [bestTrackUrl |-> tracks[track].baseUrl, foundLang |-> PlainTag(lang), done |-> TRUE]
            ELSE IF acc.bestTrackUrl = NoUrl /\ asrTrack # 0
                 THEN [bestTrackUrl |-> tracks[asrTrack].baseUrl, foundLang |-> AutoTag(lang), done |-> FALSE]
                 ELSE acc

RECURSIVE TrackLoop(_, _, _, _)
TrackLoop(tracks, langPrefs, k, acc) ==
    IF k > Len(langPrefs) THEN acc
    ELSE TrackLoop(tracks, langPrefs, k + 1, TrackLoopBody(tracks, langPrefs[k], acc))

\* Lines 106-129: the preference loop, then the first track when no
\* preferred language matched.
SelectTrack(tracks, langPrefs) ==
    LET r == TrackLoop(tracks, langPrefs, 1,
                       [bestTrackUrl |-> NoUrl, foundLang |-> NoLang, done |-> FALSE])
    IN IF r.bestTrackUrl = NoUrl /\ Len(tracks) > 0
       THEN [bestTrackUrl |-> tracks[1].baseUrl,
             foundLang |-> IF tracks[1].kind = "asr"
                           THEN AutoTag(tracks[1].languageCode)
                           ELSE PlainTag(tracks[1].languageCode)]
       ELSE [bestTrackUrl |-> r.bestTrackUrl, foundLang |-> r.foundLang]

NoSel == [tracks |-> <<>>, langPrefs |-> <<>>, pc |-> "off",
          bestTrackUrl |-> NoUrl, foundLang |-> NoLang]

\* Track selection applied to the drawn track set and preference list.
Select ==
    /\ sel.pc = "input"
    /\ LET r == SelectTrack(sel.tracks, sel.langPrefs)
       IN sel' = [sel EXCEPT !.pc = "selected",
                             !.bestTrackUrl = r.bestTrackUrl,
                             !.foundLang = r.foundLang]
    /\ UNCHANGED <<storage, YOUTUBE_API_KEY, GEMINI_API_KEY, ops, inbox, queue,
                   popupOpen, isProcessing, transcriptBtnDisabled,
                   commentsBtnDisabled, pendingQuery, env>>

----------------------------------------------------------------------------
(* Messages from the background to the popup *)

NoData == [type |-> "none"]
NoError == <<>>

\* updatePopupStatus(message, isError, isProcessing): the isProcessing field
\* is put on the message only when the argument is given.
StatusMsg(text, isError, processing) ==
    [action |-> "updateStatus", text |-> text, isError |-> isError,
     isProcessing |-> processing, data |-> NoData, error |-> NoError]

\* sendDataToPopup(action, data, error): data and error are put on the
\* message only when truthy.
DataMsg(action, data, error) ==
    [action |-> action, text |-> "", isError |-> FALSE,
     isProcessing |-> "undefined", data |-> data, error |-> error]

TerminalActions == {"displayTranscript", "displayCommentAnalysis", "displayFactCheck"}

TerminalOf(kind) ==
    CASE kind = "getTranscript" -> "displayTranscript"
      [] kind = "analyzeComments" -> "displayCommentAnalysis"
      [] kind = "factCheckSelection" -> "displayFactCheck"
      [] OTHER -> "none"

----------------------------------------------------------------------------
(* Operations of the background listener *)

Ops == 1..MaxOps

ZeroCounts == [positive |-> 0, negative |-> 0, neutral |-> 0]

NoOp ==
    [kind |-> "none", source |-> "none", pc |-> "idle",
     sent |-> <<>>,             \* messages sent, in order
     reqs |-> <<>>,             \* network requests issued, in order
     thrown |-> NoError,        \* the error that reached the router's catch
     failed |-> NoError,        \* the error the component function threw
     youtubeKey |-> Null, geminiKey |-> Null,
     fetchedCount |-> 0, analyzedComments |-> <<>>,
     sentimentCounts |-> ZeroCounts, i |-> 0, batchLog |-> <<>>,
     bestTrackUrl |-> NoUrl, foundLang |-> NoLang,
     lines |-> <<>>,            \* the lines extracted from the caption track
     fallbacks |-> 0,           \* calls of fetchAvailableTranscriptLangsAPI
     outcomes |-> <<>>,         \* what each awaited external call returned
     factResponse |-> [kind |-> "none"]]

Request(to, n, key) == [to |-> to, n |-> n, key |-> key]

\* chrome.runtime.sendMessage to the popup: delivered when a popup is open,
\* rejected (and the rejection swallowed) otherwise.
Emit(o, newOp, msgs) ==
    /\ ops' = [ops EXCEPT ![o] = [newOp EXCEPT !.sent = @ \o msgs]]
    /\ queue' = IF popupOpen
                THEN queue \o [k \in 1..Len(msgs) |-> [op |-> o, msg |-> msgs[k]]]
                ELSE queue

\* loadAPIKeys: the values it returns; on a storage error it returns nulls.
LoadedKeys(ok) ==
    IF ok THEN [youtubeKey |-> OrNull(storage.youtubeApiKey),
                geminiKey |-> OrNull(storage.geminiApiKey)]
    ELSE [youtubeKey |-> Null, geminiKey |-> Null]

\* loadAPIKeys: its writes to the two globals (none on a storage error).
LoadAPIKeys(ok) ==
    /\ YOUTUBE_API_KEY' = IF ok THEN OrNull(storage.youtubeApiKey) ELSE YOUTUBE_API_KEY
    /\ GEMINI_API_KEY' = IF ok THEN OrNull(storage.geminiApiKey) ELSE GEMINI_API_KEY

\* A router whose transcript catch block reports the error result before the
\* error status.
RouterCatchDataFirst(kind, err) ==
    CASE kind = "getTranscript" ->
           <<DataMsg("displayTranscript", NoData, <<"Error: ">> \o err),
             StatusMsg("Transcript Error: ", TRUE, "false")>>
      [] kind = "analyzeComments" ->
           <<StatusMsg("Comments Error: ", TRUE, "false"),
             DataMsg("displayCommentAnalysis", NoData, <<"Error: ">> \o err)>>
      [] kind = "factCheckSelection" ->
           <<StatusMsg("Fact-check Error: ", TRUE, "false")>>

\* The catch blocks of the three handlers of the message listener.
RouterCatch(kind, err) ==
    CASE kind = "getTranscript" ->
           <<StatusMsg("Transcript Error: ", TRUE, "false"),
             DataMsg("displayTranscript", NoData, <<"Error: ">> \o err)>>
      [] kind = "analyzeComments" ->
           <<StatusMsg("Comments Error: ", TRUE, "false"),
             DataMsg("displayCommentAnalysis", NoData, <<"Error: ">> \o err)>>
      [] kind = "factCheckSelection" ->
           <<StatusMsg("Fact-check Error: ", TRUE, "false")>>

\* The synchronous start of a handler, up to its first await.
Accept(o, kind, source) ==
    /\ ops[o].kind = "none"
    /\ IF kind = "factCheckSelection"
       THEN Emit(o, [ops[o] EXCEPT !.kind = kind, !.source = source, !.pc = "factKeys"],
                 <<StatusMsg("Fact-checking selected text...", FALSE, "true")>>)
       ELSE Emit(o, [ops[o] EXCEPT !.kind = kind, !.source = source, !.pc = "videoId"],
                 <<StatusMsg(IF kind = "getTranscript" THEN "Getting video details..."
                             ELSE "Getting video details for comments...", FALSE, "true")>>)

PopupUnchanged ==
    UNCHANGED <<popupOpen, isProcessing, transcriptBtnDisabled, commentsBtnDisabled,
                pendingQuery>>

RequestKinds == {"getTranscript", "analyzeComments", "factCheckSelection"}

\* A request from any extension page, accepted by the listener.
ReceiveRequest(o) ==
    /\ \E kind \in RequestKinds : Accept(o, kind, "external")
    /\ PopupUnchanged
    /\ UNCHANGED <<storage, YOUTUBE_API_KEY, GEMINI_API_KEY, inbox, env, sel>>

\* getVideoIdFromTab returns or throws; then the component function runs up
\* to its first await.
VideoIdReturn(o) ==
    /\ ops[o].pc = "videoId"
    /\ \E ok \in BOOLEAN :
         LET op == [ops[o] EXCEPT !.outcomes = @ \o <<IF ok THEN "videoId" ELSE "noVideoId">>]
         IN IF ~ok
            THEN LET err == <<"Failed to get video ID: ">>
                 IN Emit(o, [op EXCEPT !.pc = "done", !.thrown = err],
                         RouterCatch(op.kind, err))
            ELSE IF op.kind = "getTranscript"
                 THEN Emit(o, [op EXCEPT !.pc = "pageFetch",
                                         !.reqs = @ \o <<Request("watchPage", 0, Null)>>],
                           <<StatusMsg("Attempting to fetch transcript data from page...",
                                       FALSE, "true")>>)
                 ELSE Emit(o, [op EXCEPT !.pc = "commentKeys"],
                           <<StatusMsg("Fetching comments for video: ", FALSE, "true")>>)
    /\ PopupUnchanged
    /\ UNCHANGED <<storage, YOUTUBE_API_KEY, GEMINI_API_KEY, inbox, env, sel>>

----------------------------------------------------------------------------
(* Transcript Fetcher: fetchTranscriptFromPage, fetchAvailableTranscriptLangsAPI *)

PageOutcomes == {"notOk", "noBlob", "badJson", "noCaptions", "noTracks", "tracks"}

\* Text of a timed-text entry once the tags are removed and the entities
\* decoded, before trimming.
RawTexts == {"", " ", "hi"}

\* String.prototype.trim
Trim(t) == IF t = " " THEN "" ELSE t

\* Lines 146-154: one trimmed line per <text> entry.
ExtractLines(entries) == [k \in 1..Len(entries) |-> Trim(entries[k])]

\* The first statements of fetchAvailableTranscriptLangsAPI, up to its await
\* of loadAPIKeys.
EnterFallback(o, op, before) ==
    Emit(o, [op EXCEPT !.pc = "fallbackKeys", !.fallbacks = @ + 1],
         before \o <<StatusMsg("Fetching available caption languages via API...",
                               FALSE, "undefined")>>)

\* The catch block of fetchTranscriptFromPage (lines 164-169).
PageCatch(o, op) ==
    EnterFallback(o, op,
        <<StatusMsg("Transcript fetch from page failed: ", TRUE, "undefined")>>)

\* The watch page arrives (lines 77-139).
PageReturn(o) ==
    /\ ops[o].pc = "pageFetch"
    /\ \E out \in PageOutcomes, tracks \in TrackListsUpTo(env.maxTracks) :
         /\ out # "tracks" => tracks = <<[languageCode |-> "en", kind |-> NoKind, baseUrl |-> 1]>>
         /\ LET op == [ops[o] EXCEPT !.outcomes = @ \o <<out>>]
            IN CASE out \in {"notOk", "badJson"} ->
                      PageCatch(o, op)
                 [] out \in {"noBlob", "noCaptions", "noTracks"} ->
                      EnterFallback(o, op, <<>>)
                 [] out = "tracks" ->
                      LET r == SelectTrack(tracks, defaultLangPrefs)
                      IN IF r.bestTrackUrl = NoUrl
                         THEN PageCatch(o, op)
                         ELSE Emit(o, [op EXCEPT !.pc = "trackFetch",
                                                 !.bestTrackUrl = r.bestTrackUrl,
                                                 !.foundLang = r.foundLang,
                                                 !.reqs = @ \o <<Request("track", r.bestTrackUrl, Null)>>],
                                   <<StatusMsg("Fetching transcript content for language: ",
                                               FALSE, "undefined")>>)
    /\ PopupUnchanged
    /\ UNCHANGED <<storage, YOUTUBE_API_KEY, GEMINI_API_KEY, inbox, env, sel>>

\* The caption track arrives (lines 140-162).
TrackReturn(o) ==
    /\ ops[o].pc = "trackFetch"
    /\ \E ok \in BOOLEAN, entries \in SeqsUpTo(RawTexts, env.maxLines) :
         LET lines == ExtractLines(entries)
             op == [ops[o] EXCEPT !.outcomes = @ \o <<IF ok THEN "ok" ELSE "notOk">>,
                                  !.lines = IF ok THEN lines ELSE <<>>]
         IN IF ~ok
            THEN entries = <<>> /\ PageCatch(o, op)
            ELSE IF Len(lines) = 0
                 THEN PageCatch(o, op)
                 ELSE Emit(o, [op EXCEPT !.pc = "done"],
                           <<DataMsg("displayTranscript",
                                     [type |-> "transcript", foundLang |-> op.foundLang,
                                      lines |-> lines],
                                     NoError)>>)
    /\ PopupUnchanged
    /\ UNCHANGED <<storage, YOUTUBE_API_KEY, GEMINI_API_KEY, inbox, env, sel>>

\* loadAPIKeys returns in fetchAvailableTranscriptLangsAPI (lines 175-182).
\* The missing-key error is thrown outside the function's try and reaches
\* the router's catch.
FallbackKeys(o) ==
    /\ ops[o].pc = "fallbackKeys"
    /\ \E ok \in BOOLEAN :
         /\ LoadAPIKeys(ok)
         /\ LET keys == LoadedKeys(ok)
                op == [ops[o] EXCEPT !.youtubeKey = keys.youtubeKey,
                                     !.outcomes = @ \o <<IF ok THEN "keys" ELSE "storageError">>]
            IN IF ~Truthy(keys.youtubeKey)
               THEN LET err == <<"YouTube API Key not set in options.">>
                    IN Emit(o, [op EXCEPT !.pc = "done", !.thrown = err, !.failed = err],
                            RouterCatch(op.kind, err))
               ELSE Emit(o, [op EXCEPT !.pc = "apiFetch",
                                       !.reqs = @ \o <<Request("captions", 0, keys.youtubeKey)>>],
                         <<>>)
    /\ PopupUnchanged
    /\ UNCHANGED <<storage, inbox, env, sel>>

ApiOutcomes == {"notOk", "noItems", "items"}

\* The captions list arrives (lines 184-205).
ApiReturn(o) ==
    /\ ops[o].pc = "apiFetch"
    /\ \E out \in ApiOutcomes :
         LET op == [ops[o] EXCEPT !.outcomes = @ \o <<out>>, !.pc = "done"]
         IN IF out = "items"
            THEN Emit(o, op, <<DataMsg("displayTranscript", [type |-> "languages"], NoError)>>)
            ELSE Emit(o, op, <<DataMsg("displayTranscript", NoData,
                                       <<"Transcript check via API failed: ", out>>)>>)
    /\ PopupUnchanged
    /\ UNCHANGED <<storage, YOUTUBE_API_KEY, GEMINI_API_KEY, inbox, env, sel>>

----------------------------------------------------------------------------
(* Comment Analyzer: fetchAndAnalyzeComments *)

Recognized == {"positive", "negative", "neutral"}

\* The comments fetched carry the ids 1..fetchedCount (ids are unique per
\* video).  The elements an array of the classifier is made of: null, the
\* first comment with each sentiment value (recognized, recognized but for
\* its case, unrecognized, missing), the second comment, and the first
\* comment of the second batch (an id of another batch, or of no comment).
SentimentValues == {"positive", "Negative", "mixed", "undefined"}
NullEntry == [id |-> 0, sentiment |-> "null"]
Entries ==
    {NullEntry}
    \cup [id : {1}, sentiment : SentimentValues]
    \cup {[id |-> 2, sentiment |-> "negative"], [id |-> batchSize + 1, sentiment |-> "positive"]}

\* What the classifier call of one batch returns: a non-OK response, an OK
\* response whose body is not JSON, or an OK response whose text payload is
\* empty, malformed, valid JSON that is no array, or a JSON array.
ClassifierResponses(n) ==
    {[kind |-> k, entries |-> <<>>] :
        k \in {"httpError", "bodyNotJson", "emptyText", "malformed", "nonArray"}}
    \cup {[kind |-> "array", entries |-> e] : e \in SeqsUpTo(Entries, n)}

\* String.prototype.toLowerCase on the sentiment strings of the model
ToLowerCase(t) == IF t = "Negative" THEN "negative" ELSE t

\* (sentimentResult.sentiment || 'neutral').toLowerCase()
SentimentOf(entry) ==
    ToLowerCase(IF entry.sentiment = "undefined" THEN "neutral" ELSE entry.sentiment)

\* A count that files every label under neutral.
CountAsNeutral(counts, sentiment) == [counts EXCEPT !.neutral = @ + 1]

\* Lines 292-296
Count(counts, sentiment) ==
    IF sentiment \in Recognized
    THEN [counts EXCEPT ![sentiment] = @ + 1]
    ELSE [counts EXCEPT !.neutral = @ + 1]

\* Lines 287-298: sentiments.forEach over the returned array; reading .id of
\* a null element throws, which ends the forEach.
RECURSIVE Correlate(_, _, _, _, _)
Correlate(entries, k, lo, hi, acc) ==
    IF k > Len(entries) THEN acc
    ELSE IF entries[k] = NullEntry THEN [acc EXCEPT !.threw = TRUE]
    ELSE IF entries[k].id \in lo..hi
         THEN LET sentiment == SentimentOf(entries[k])
              IN Correlate(entries, k + 1, lo, hi,
                           [acc EXCEPT !.analyzedComments =
                                           Append(@, [id |-> entries[k].id, sentiment |-> sentiment]),
                                       !.sentimentCounts = Count(@, sentiment)])
         ELSE Correlate(entries, k + 1, lo, hi, acc)

\* Lines 303-308: the catch of the parse block labels the whole batch neutral.
ParseCatch(lo, hi, acc) ==
    [analyzedComments |-> acc.analyzedComments \o
                            [k \in 1..(hi - lo + 1) |-> [id |-> lo + k - 1, sentiment |-> "neutral"]],
     sentimentCounts |-> [acc.sentimentCounts EXCEPT !.neutral = @ + (hi - lo + 1)],
     threw |-> FALSE]

\* The response is a JSON array with exactly one entry for each comment
\* lo..hi of the batch, each with a recognized sentiment.
Complete(resp, lo, hi) ==
    /\ resp.kind = "array"
    /\ Len(resp.entries) = hi - lo + 1
    /\ \A c \in lo..hi : \E k \in 1..Len(resp.entries) : resp.entries[k].id = c
    /\ \A k \in 1..Len(resp.entries) : resp.entries[k].sentiment \in Recognized

\* How many entries of the response give each label.
Given(resp) ==
    [l \in Recognized |->
        Cardinality({k \in 1..Len(resp.entries) : resp.entries[k].sentiment = l})]

\* A batch whose non-OK response is handled as an unparseable one is.
HandleBatchNeutralOnError(lo, hi, resp, analyzedComments, sentimentCounts) ==
    LET acc == [analyzedComments |-> analyzedComments,
                sentimentCounts |-> sentimentCounts, threw |-> FALSE]
    IN CASE resp.kind \in {"httpError", "emptyText", "malformed"} -> ParseCatch(lo, hi, acc)
         [] resp.kind = "nonArray" -> acc
         [] OTHER -> LET c == Correlate(resp.entries, 1, lo, hi, acc)
                     IN IF c.threw THEN ParseCatch(lo, hi, c) ELSE c

\* Lines 274-308: the batch lo..hi of the comments and its response.
HandleBatch(lo, hi, resp, analyzedComments, sentimentCounts) ==
    LET acc == [analyzedComments |-> analyzedComments,
                sentimentCounts |-> sentimentCounts, threw |-> FALSE]
    IN CASE resp.kind = "httpError" -> acc
         [] resp.kind \in {"emptyText", "malformed"} -> ParseCatch(lo, hi, acc)
         [] resp.kind = "nonArray" -> acc
         [] OTHER -> LET c == Correlate(resp.entries, 1, lo, hi, acc)
                     IN IF c.threw THEN ParseCatch(lo, hi, c) ELSE c

\* The key checks with the Gemini check missing.
CommentKeyCheckYouTubeOnly(youtubeKey, geminiKey) ==
    IF ~Truthy(youtubeKey) THEN <<"YouTube API Key not set in options.">>
    ELSE NoError

\* Lines 213-214
CommentKeyCheck(youtubeKey, geminiKey) ==
    IF ~Truthy(youtubeKey) THEN <<"YouTube API Key not set in options.">>
    ELSE IF ~Truthy(geminiKey) THEN <<"Gemini API Key not set in options.">>
    ELSE NoError

\* A request of the pagination loop that asks for the whole cap each time.
IssuePageAskCap(o, op, before) ==
    Emit(o, [op EXCEPT !.pc = "commentPage",
                       !.reqs = @ \o <<Request("commentThreads",
                                               Min(maxResultsDefault, pageLimit),
                                               op.youtubeKey)>>],
         before \o <<StatusMsg("Fetching comment page", FALSE, "undefined")>>)

\* Lines 223-229: one request of the pagination loop.
IssuePage(o, op, before) ==
    Emit(o, [op EXCEPT !.pc = "commentPage",
                       !.reqs = @ \o <<Request("commentThreads",
                                               Min(maxResultsDefault - op.fetchedCount, pageLimit),
                                               op.youtubeKey)>>],
         before \o <<StatusMsg("Fetching comment page", FALSE, "undefined")>>)

\* Lines 265-272: the classifier request of the batch starting at op.i; the
\* key in its URL is read from the global.
IssueBatch(o, op, before) ==
    Emit(o, [op EXCEPT !.pc = "batch",
                       !.reqs = @ \o <<Request("classifier", op.i, GEMINI_API_KEY)>>],
         before)

\* Lines 323-329 followed by the catch of the analyzeComments handler.
CommentCatch(o, op, err) ==
    Emit(o, [op EXCEPT !.pc = "done", !.thrown = err, !.failed = err],
         <<DataMsg("displayCommentAnalysis", NoData, <<"Comment analysis failed: ">> \o err),
           StatusMsg("Comment analysis failed: ", TRUE, "false")>>
         \o RouterCatch(op.kind, err))

\* loadAPIKeys returns in fetchAndAnalyzeComments (lines 211-229).
CommentKeys(o) ==
    /\ ops[o].pc = "commentKeys"
    /\ \E ok \in BOOLEAN :
         /\ LoadAPIKeys(ok)
         /\ LET keys == LoadedKeys(ok)
                op == [ops[o] EXCEPT !.youtubeKey = keys.youtubeKey,
                                     !.geminiKey = keys.geminiKey,
                                     !.outcomes = @ \o <<IF ok THEN "keys" ELSE "storageError">>]
                err == CommentKeyCheck(keys.youtubeKey, keys.geminiKey)
            IN IF err # NoError
               THEN Emit(o, [op EXCEPT !.pc = "done", !.thrown = err, !.failed = err],
                         RouterCatch(op.kind, err))
               ELSE IssuePage(o, op, <<>>)
    /\ PopupUnchanged
    /\ UNCHANGED <<storage, inbox, env, sel>>

\* The analysis result of lines 312-317.
Results(op) ==
    [type |-> "analysis", totalFetched |-> op.fetchedCount,
     totalAnalyzed |-> Len(op.analyzedComments),
     sentiment |-> op.sentimentCounts,
     sampleAnalyzedComments |-> op.analyzedComments]

\* The page the endpoint serves: at most the number of items asked for, at
\* most its own page size, at most what the video has left.
ServedItems(op) ==
    Min(Min(op.reqs[Len(op.reqs)].n, env.pageSize), env.comments - op.fetchedCount)

\* A page of comments arrives (lines 230-272).  The endpoint gives a
\* continuation token while the video has comments left.
CommentPage(o) ==
    /\ ops[o].pc = "commentPage"
    /\ \E ok \in BOOLEAN :
         LET items == IF ok THEN ServedItems(ops[o]) ELSE 0
             op == [ops[o] EXCEPT !.outcomes = @ \o <<IF ok THEN "ok" ELSE "notOk">>,
                                  !.fetchedCount = @ + items]
             nextPageToken == ok /\ op.fetchedCount < env.comments
         IN IF ~ok
            THEN CommentCatch(o, op, <<"API Error">>)
            ELSE IF nextPageToken /\ op.fetchedCount < maxResultsDefault
                 THEN IssuePage(o, op, <<>>)
                 ELSE IF op.fetchedCount = 0
                      THEN Emit(o, [op EXCEPT !.pc = "done"],
                                <<DataMsg("displayCommentAnalysis", Results(op), NoError),
                                  StatusMsg("No comments found or fetched.", FALSE, "false")>>)
                      ELSE IssueBatch(o, op,
                                <<StatusMsg("Analyzing comments using Gemini...",
                                            FALSE, "undefined")>>)
    /\ PopupUnchanged
    /\ UNCHANGED <<storage, YOUTUBE_API_KEY, GEMINI_API_KEY, inbox, env, sel>>

\* The classifier's answer for the batch starting at op.i arrives
\* (lines 274-321).
BatchReturn(o) ==
    /\ ops[o].pc = "batch"
    /\ \E resp \in ClassifierResponses(env.maxEntries) :
         LET lo == ops[o].i + 1
             hi == Min(ops[o].i + batchSize, ops[o].fetchedCount)
             r == HandleBatch(lo, hi, resp, ops[o].analyzedComments, ops[o].sentimentCounts)
             op == [ops[o] EXCEPT !.outcomes = @ \o <<resp.kind>>,
                                  !.batchLog = @ \o <<[kind |-> resp.kind, lo |-> lo, hi |-> hi,
                                                       complete |-> Complete(resp, lo, hi),
                                                       given |-> IF Complete(resp, lo, hi)
                                                                 THEN Given(resp)
                                                                 ELSE ZeroCounts]>>]
             next == [op EXCEPT !.analyzedComments = r.analyzedComments,
                                !.sentimentCounts = r.sentimentCounts,
                                !.i = @ + batchSize]
         IN IF resp.kind = "bodyNotJson"
            THEN CommentCatch(o, op, <<"SyntaxError">>)
            ELSE IF next.i < next.fetchedCount
                 THEN IssueBatch(o, next, <<>>)
                 ELSE Emit(o, [next EXCEPT !.pc = "done"],
                           <<DataMsg("displayCommentAnalysis", Results(next), NoError),
                             StatusMsg("Analyzed comments.", FALSE, "false")>>)
    /\ PopupUnchanged
    /\ UNCHANGED <<storage, YOUTUBE_API_KEY, GEMINI_API_KEY, inbox, env, sel>>

----------------------------------------------------------------------------
(* Fact Checker: performFactCheck *)

\* A JSON object as the classifier may return it; "undefined" is a missing
\* field, sources is an array of strings or something else.
ParsedObjects ==
    [verdict : {"undefined", "", "True"},
     confidence : {"undefined", "null", "0", "0.9"},
     explanation : {"undefined", "because"},
     sources : {[isArray |-> FALSE, items |-> <<>>],
                [isArray |-> TRUE, items |-> <<>>],
                [isArray |-> TRUE, items |-> <<"https://example.org">>]}]

EmptyObject ==
    [verdict |-> "undefined", confidence |-> "undefined", explanation |-> "undefined",
     sources |-> [isArray |-> FALSE, items |-> <<>>]]

\* What the fact-check call returns.  kind: "httpError" (non-OK),
\* "bodyNotJson" (response.json() rejects), "text" (a text payload: json says
\* whether it is invalid JSON, JSON null, a JSON number or a JSON object),
\* "content" (no text payload, candidates[0].content is an object or null),
\* "noContent" (neither).
FactResponses ==
    {[kind |-> k, json |-> "none", obj |-> EmptyObject] :
        k \in {"httpError", "bodyNotJson", "noContent"}}
    \cup {[kind |-> "text", json |-> j, obj |-> EmptyObject] :
            j \in {"invalid", "null", "number"}}
    \cup {[kind |-> "text", json |-> "object", obj |-> ob] : ob \in ParsedObjects}
    \cup {[kind |-> "content", json |-> "null", obj |-> EmptyObject]}
    \cup {[kind |-> "content", json |-> "object", obj |-> ob] : ob \in ParsedObjects}

\* Lines 398-403: the field defaults.
FormattedResult(obj) ==
    [type |-> "factCheck",
     verdict |-> IF obj.verdict \in {"undefined", ""} THEN "Unknown" ELSE obj.verdict,
     confidence |-> IF obj.confidence # "undefined" THEN obj.confidence ELSE "null",
     explanation |-> IF obj.explanation \in {"undefined", ""}
                     THEN "No explanation provided." ELSE obj.explanation,
     sources |-> IF obj.sources.isArray THEN obj.sources.items ELSE <<>>]

\* The response handling with a text payload that is not valid JSON taken as
\* an object without fields.
FactCheckOutcomeLenient(resp) ==
    CASE resp.kind = "httpError" -> [error |-> <<"Gemini API Error">>, result |-> NoData]
      [] resp.kind = "bodyNotJson" -> [error |-> <<"SyntaxError">>, result |-> NoData]
      [] resp.kind = "noContent" ->
           [error |-> <<"Could not find parsable content in Gemini fact-check response.">>,
            result |-> NoData]
      [] resp.json = "invalid" -> [error |-> NoError, result |-> FormattedResult(EmptyObject)]
      [] resp.json = "null" -> [error |-> <<"TypeError">>, result |-> NoData]
      [] resp.json = "number" -> [error |-> NoError, result |-> FormattedResult(EmptyObject)]
      [] OTHER -> [error |-> NoError, result |-> FormattedResult(resp.obj)]

\* Lines 370-403: the error thrown inside the try, or the formatted result.
FactCheckOutcome(resp) ==
    CASE resp.kind = "httpError" -> [error |-> <<"Gemini API Error">>, result |-> NoData]
      [] resp.kind = "bodyNotJson" -> [error |-> <<"SyntaxError">>, result |-> NoData]
      [] resp.kind = "noContent" ->
           [error |-> <<"Could not find parsable content in Gemini fact-check response.">>,
            result |-> NoData]
      [] resp.json = "invalid" ->
           [error |-> <<"Fact-check response from Gemini was not valid JSON.">>,
            result |-> NoData]
      [] resp.json = "null" -> [error |-> <<"TypeError">>, result |-> NoData]
      [] resp.json = "number" -> [error |-> NoError, result |-> FormattedResult(EmptyObject)]
      [] OTHER -> [error |-> NoError, result |-> FormattedResult(resp.obj)]

\* Lines 335-337
FactKeyCheck(geminiKey) ==
    IF ~Truthy(geminiKey) THEN <<"Gemini API Key not set in options.">> ELSE NoError

\* loadAPIKeys returns in performFactCheck (lines 334-368).  The missing-key
\* error is thrown outside the try: only the handler's catch sees it.
FactKeys(o) ==
    /\ ops[o].pc = "factKeys"
    /\ \E ok \in BOOLEAN :
         /\ LoadAPIKeys(ok)
         /\ LET keys == LoadedKeys(ok)
                op == [ops[o] EXCEPT !.geminiKey = keys.geminiKey,
                                     !.outcomes = @ \o <<IF ok THEN "keys" ELSE "storageError">>]
                err == FactKeyCheck(keys.geminiKey)
            IN IF err # NoError
               THEN Emit(o, [op EXCEPT !.pc = "done", !.thrown = err, !.failed = err],
                         RouterCatch(op.kind, err))
               ELSE Emit(o, [op EXCEPT !.pc = "factFetch",
                                       !.reqs = @ \o <<Request("factCheck", 0, keys.geminiKey)>>],
                         <<>>)
    /\ PopupUnchanged
    /\ UNCHANGED <<storage, inbox, env, sel>>

\* The classifier's answer arrives (lines 370-415), then the handler's catch.
FactReturn(o) ==
    /\ ops[o].pc = "factFetch"
    /\ \E resp \in FactResponses :
         LET out == FactCheckOutcome(resp)
             op == [ops[o] EXCEPT !.pc = "done",
                                  !.outcomes = @ \o <<resp.kind>>,
                                  !.factResponse = resp]
         IN IF out.error # NoError
            THEN Emit(o, [op EXCEPT !.thrown = out.error, !.failed = out.error],
                      <<DataMsg("displayFactCheck", NoData, <<"Fact-check failed: ">> \o out.error),
                        StatusMsg("Fact-check failed: ", TRUE, "false")>>
                      \o RouterCatch(op.kind, out.error))
            ELSE Emit(o, op,
                      <<DataMsg("displayFactCheck", out.result, NoError),
                        StatusMsg("Fact-check complete.", FALSE, "false")>>)
    /\ PopupUnchanged
    /\ UNCHANGED <<storage, YOUTUBE_API_KEY, GEMINI_API_KEY, inbox, env, sel>>

----------------------------------------------------------------------------
(* Specifications *)

\* The environments of the model: the number of comments of the video, the
\* page size the comments endpoint serves them in, how many caption tracks
\* and timed-text entries the video has at most, and how many elements an
\* array returned by the classifier has at most.
Envs(n, sizes, t, l, e) ==
    [comments : 0..n, pageSize : sizes, maxTracks : {t}, maxLines : {l}, maxEntries : {e}]

\* Videos with about as many comments as the cap of the pagination, served
\* in pages smaller or larger than the cap; their classifier returns no
\* array elements.
LongEnvs ==
    [comments : (maxResultsDefault - 1)..(maxResultsDefault + MaxOver),
     pageSize : {20, pageLimit}, maxTracks : {1}, maxLines : {1}, maxEntries : {0}]

\* What the options page has stored: nothing, an empty string or a key.
Storages(unset) ==
    [youtubeApiKey : unset \cup {"AIza-youtube"}, geminiApiKey : unset \cup {"AIza-gemini"}]

\* The service worker has started: the globals of lines 2-3, no handler.
InitBackground ==
    /\ YOUTUBE_API_KEY = Null
    /\ GEMINI_API_KEY = Null
    /\ ops = [o \in Ops |-> NoOp]
    /\ inbox = <<>>
    /\ queue = <<>>

\* popup.js when the popup page has loaded (lines 9, 162-163)
InitPopup ==
    /\ isProcessing = FALSE
    /\ transcriptBtnDisabled = FALSE
    /\ commentsBtnDisabled = FALSE
    /\ pendingQuery = <<>>

\* One request to the listener, no popup open.
Init ==
    /\ storage \in Storages({"undefined", ""})
    /\ InitBackground
    /\ InitPopup
    /\ popupOpen = FALSE
    /\ env \in Envs(MaxComments, {5, pageLimit}, MaxPageTracks, MaxLines, MaxEntries)
                \cup LongEnvs
    /\ sel = NoSel

Step(o) ==
    \/ ReceiveRequest(o)
    \/ VideoIdReturn(o)
    \/ PageReturn(o)
    \/ TrackReturn(o)
    \/ FallbackKeys(o)
    \/ ApiReturn(o)
    \/ CommentKeys(o)
    \/ CommentPage(o)
    \/ BatchReturn(o)
    \/ FactKeys(o)
    \/ FactReturn(o)

Next == Step(1)

Spec == Init /\ [][Next]_vars

\* Track selection on its own, over every track set and preference list.
InitTrack ==
    /\ storage = [youtubeApiKey |-> "undefined", geminiApiKey |-> "undefined"]
    /\ YOUTUBE_API_KEY = Null
    /\ GEMINI_API_KEY = Null
    /\ ops = [o \in Ops |-> NoOp]
    /\ inbox = <<>>
    /\ queue = <<>>
    /\ InitPopup
    /\ popupOpen = FALSE
    /\ env = [comments |-> 0, pageSize |-> pageLimit, maxTracks |-> 0, maxLines |-> 0,
              maxEntries |-> 0]
    /\ \E tracks \in TrackLists, langPrefs \in PrefLists :
         sel = [NoSel EXCEPT !.tracks = tracks, !.langPrefs = langPrefs, !.pc = "input"]

NextTrack == Select

SpecTrack == InitTrack /\ [][NextTrack]_vars

----------------------------------------------------------------------------
(* Popup: popup.js *)

\* setProcessing (lines 11-16)
SetProcessing(processing) ==
    /\ isProcessing' = processing
    /\ transcriptBtnDisabled' = processing
    /\ commentsBtnDisabled' = processing

\* The requests made so far: handlers started, requests in flight, tab
\* queries outstanding.
Requested ==
    Cardinality({o \in Ops : ops[o].kind # "none"}) + Len(inbox) + Len(pendingQuery)

\* A click on transcriptBtn or commentsBtn (lines 84-90, 102-108); a disabled
\* button gives no click event.
Click ==
    /\ popupOpen
    /\ Requested < MaxOps
    /\ \E kind \in {"getTranscript", "analyzeComments"} :
         /\ IF kind = "getTranscript" THEN ~transcriptBtnDisabled ELSE ~commentsBtnDisabled
         /\ ~isProcessing
         /\ SetProcessing(TRUE)
         /\ pendingQuery' = Append(pendingQuery, kind)
    /\ UNCHANGED <<storage, YOUTUBE_API_KEY, GEMINI_API_KEY, ops, inbox, queue,
                   popupOpen, env, sel>>

\* The chrome.tabs.query callback (lines 90-99, 108-117).
QueryCallback ==
    /\ pendingQuery # <<>>
    /\ pendingQuery' = Tail(pendingQuery)
    /\ \E isWatchPage \in BOOLEAN :
         IF isWatchPage
         THEN /\ inbox' = Append(inbox, Head(pendingQuery))
              /\ UNCHANGED <<isProcessing, transcriptBtnDisabled, commentsBtnDisabled>>
         ELSE /\ SetProcessing(FALSE)
              /\ UNCHANGED inbox
    /\ UNCHANGED <<storage, YOUTUBE_API_KEY, GEMINI_API_KEY, ops, queue,
                   popupOpen, env, sel>>

\* The background listener receives a request of the popup.
ReceiveFromPopup ==
    /\ inbox # <<>>
    /\ inbox' = Tail(inbox)
    /\ \E o \in Ops :
         /\ ops[o].kind = "none"
         /\ \A p \in Ops : ops[p].kind = "none" => o <= p
         /\ Accept(o, Head(inbox), "popup")
    /\ PopupUnchanged
    /\ UNCHANGED <<storage, YOUTUBE_API_KEY, GEMINI_API_KEY, env, sel>>

\* A listener whose display branches do not call setProcessing(false).
ProcessingAfterKeepOnData(m, processing) ==
    IF m.action = "updateStatus"
    THEN LET afterStatus == IF m.isError THEN FALSE ELSE processing
         IN IF m.isProcessing # "undefined" THEN m.isProcessing = "true" ELSE afterStatus
    ELSE processing

\* The popup's listener (lines 122-159): the value of isProcessing after it
\* has handled message m.
ProcessingAfter(m, processing) ==
    IF m.action = "updateStatus"
    THEN LET afterStatus == IF m.isError THEN FALSE ELSE processing
         IN IF m.isProcessing # "undefined" THEN m.isProcessing = "true" ELSE afterStatus
    ELSE FALSE

\* The popup receives the next message of the background.
Deliver ==
    /\ queue # <<>>
    /\ queue' = Tail(queue)
    /\ SetProcessing(ProcessingAfter(Head(queue).msg, isProcessing))
    /\ UNCHANGED <<storage, YOUTUBE_API_KEY, GEMINI_API_KEY, ops, inbox,
                   popupOpen, pendingQuery, env, sel>>

----------------------------------------------------------------------------
(* The popup and the background together *)

InitUI ==
    /\ storage \in Storages({"undefined"})
    /\ InitBackground
    /\ InitPopup
    /\ popupOpen = TRUE
    /\ env \in Envs(MaxCommentsUI, {pageLimit}, MaxTracksUI, MaxLinesUI, MaxEntriesUI)
    /\ sel = NoSel

Handler(o) ==
    \/ VideoIdReturn(o)
    \/ PageReturn(o)
    \/ TrackReturn(o)
    \/ FallbackKeys(o)
    \/ ApiReturn(o)
    \/ CommentKeys(o)
    \/ CommentPage(o)
    \/ BatchReturn(o)

NextUI ==
    \/ Click
    \/ QueryCallback
    \/ ReceiveFromPopup
    \/ Deliver
    \/ \E o \in Ops : Handler(o)

SpecUI == InitUI /\ [][NextUI]_vars

----------------------------------------------------------------------------
(* Properties *)

Terminals(o) ==
    {k \in 1..Len(ops[o].sent) : ops[o].sent[k].action = TerminalOf(ops[o].kind)}

Statuses(o) ==
    {k \in 1..Len(ops[o].sent) : ops[o].sent[k].action = "updateStatus"}

\* C1: every accepted getTranscript, analyzeComments or factCheckSelection
\* request has, when its handler has ended, sent exactly one terminal result
\* message of its kind, carrying data or an error.
C1_ExactlyOneTerminal ==
    \A o \in Ops :
        ops[o].pc = "done" =>
            /\ Cardinality(Terminals(o)) = 1
            /\ \A k \in Terminals(o) :
                   ops[o].sent[k].data # NoData \/ ops[o].sent[k].error # NoError

\* C2: within one operation no updateStatus message is sent after the
\* operation's terminal result message.
C2_StatusBeforeTerminal ==
    \A o \in Ops : \A j \in Terminals(o), k \in Statuses(o) : k < j

\* C2 as amended: a status message sent after the operation's terminal result
\* message is a closing status, carrying isProcessing = false, of a comment
\* analysis or a fact-check; every other status message, and every status
\* message of a transcript operation, precedes the terminal result message.
C2_OnlyClosingStatusAfterTerminal ==
    \A o \in Ops : \A j \in Terminals(o), k \in Statuses(o) :
        k > j => /\ ops[o].kind \in {"analyzeComments", "factCheckSelection"}
                 /\ ops[o].sent[k].isProcessing = "false"

\* A comment analysis has sent its result and then its closing status, and
\* no progress status after the result.
C2_Witness ==
    \E o \in Ops :
        /\ ops[o].kind = "analyzeComments" /\ ops[o].pc = "done"
        /\ \E j \in Terminals(o), k \in Statuses(o) :
               /\ k = j + 1
               /\ ops[o].sent[j].data # NoData
               /\ ops[o].sent[k].isProcessing = "false"
        /\ \E k \in Statuses(o) : ops[o].sent[k].isProcessing = "undefined"

PopupOps == {o \in Ops : ops[o].source = "popup"}

\* C3: while a request of the popup is on its way to the background or its
\* handler is running there, the popup's isProcessing is true and both
\* buttons are disabled; no two handlers started by the popup run at the
\* same time.
C3_PopupBusyWhileInFlight ==
    /\ (inbox # <<>> \/ \E o \in PopupOps : ops[o].pc # "done") =>
           (isProcessing /\ transcriptBtnDisabled /\ commentsBtnDisabled)
    /\ Cardinality({o \in PopupOps : ops[o].pc # "done"}) <= 1

----------------------------------------------------------------------------
(* Track selection, stated on the track set and the preference list *)

HasTrack(lang, kind) ==
    \E t \in 1..Len(sel.tracks) :
        sel.tracks[t].languageCode = lang /\ sel.tracks[t].kind = kind

\* The selected URL is that of the first track of this language and kind.
SelectedIs(lang, kind) ==
    \E t \in 1..Len(sel.tracks) :
        /\ sel.tracks[t].languageCode = lang /\ sel.tracks[t].kind = kind
        /\ \A u \in 1..(t - 1) :
               ~(sel.tracks[u].languageCode = lang /\ sel.tracks[u].kind = kind)
        /\ sel.bestTrackUrl = sel.tracks[t].baseUrl

\* The asr track of preference i is the one the loop finds first: no
\* preference up to i has a human-authored track, none before i an asr track.
AsrFoundAt(i) ==
    /\ HasTrack(sel.langPrefs[i], "asr")
    /\ \A k \in 1..i : ~HasTrack(sel.langPrefs[k], NoKind)
    /\ \A k \in 1..(i - 1) : ~HasTrack(sel.langPrefs[k], "asr")

\* C4: once an asr track has been found for an earlier-preferred language, a
\* human-authored track for a later-preferred language does not replace it.
C4_LaterHumanDoesNotOverride ==
    sel.pc = "selected" =>
        \A i \in 1..Len(sel.langPrefs), j \in 1..Len(sel.langPrefs) :
            (i < j /\ AsrFoundAt(i) /\ HasTrack(sel.langPrefs[j], NoKind)) =>
                /\ SelectedIs(sel.langPrefs[i], "asr")
                /\ sel.foundLang = <<sel.langPrefs[i], " (auto)">>

\* C4 as amended: once an asr track has been found for an earlier-preferred
\* language, an asr track of a later-preferred language does not replace it,
\* but a human-authored track of a later-preferred language does: the
\* selection is the human-authored track of the first later preference that
\* has one, and stays the earlier asr track when no later preference has one.
C4_LaterHumanOverridesLaterAsrDoesNot ==
    sel.pc = "selected" =>
        \A i \in 1..Len(sel.langPrefs) :
            AsrFoundAt(i) =>
                /\ \A j \in (i + 1)..Len(sel.langPrefs) :
                       (/\ HasTrack(sel.langPrefs[j], NoKind)
                        /\ \A k \in (i + 1)..(j - 1) : ~HasTrack(sel.langPrefs[k], NoKind)) =>
                           /\ SelectedIs(sel.langPrefs[j], NoKind)
                           /\ sel.foundLang = <<sel.langPrefs[j], "">>
                /\ (\A j \in (i + 1)..Len(sel.langPrefs) : ~HasTrack(sel.langPrefs[j], NoKind)) =>
                       /\ SelectedIs(sel.langPrefs[i], "asr")
                       /\ sel.foundLang = <<sel.langPrefs[i], " (auto)">>

\* An asr track was found for the first preference and the second preference
\* has a human-authored track, which is the one selected.
C4_Witness ==
    /\ sel.pc = "selected"
    /\ Len(sel.langPrefs) = 2
    /\ AsrFoundAt(1)
    /\ HasTrack(sel.langPrefs[2], NoKind)
    /\ sel.langPrefs[1] # sel.langPrefs[2]
    /\ sel.foundLang = <<sel.langPrefs[2], "">>

SelectedLang == sel.foundLang[1]

InPrefs(lang) == \E k \in 1..Len(sel.langPrefs) : sel.langPrefs[k] = lang

\* C5: when the language that ends up selected has both a human-authored and
\* an asr track, the human-authored track is fetched and the language tag
\* has no " (auto)" suffix.
C5_HumanBeatsAsrInSelectedLanguage ==
    (/\ sel.pc = "selected"
     /\ HasTrack(SelectedLang, NoKind)
     /\ HasTrack(SelectedLang, "asr")) =>
        /\ SelectedIs(SelectedLang, NoKind)
        /\ sel.foundLang = <<SelectedLang, "">>

\* C5 as amended: when the selected language is one of the preferred
\* languages and has both a human-authored and an asr track, the
\* human-authored track is fetched and the tag has no " (auto)" suffix; when
\* no preferred language has a track, the first track of the list is
\* fetched, with the suffix if it is an asr track, whatever other tracks
\* its language has.
C5_HumanBeatsAsrInPreferredLanguage ==
    sel.pc = "selected" =>
        /\ (/\ InPrefs(SelectedLang)
            /\ HasTrack(SelectedLang, NoKind)
            /\ HasTrack(SelectedLang, "asr")) =>
               /\ SelectedIs(SelectedLang, NoKind)
               /\ sel.foundLang = <<SelectedLang, "">>
        /\ (\A t \in 1..Len(sel.tracks) : ~InPrefs(sel.tracks[t].languageCode)) =>
               /\ sel.bestTrackUrl = sel.tracks[1].baseUrl
               /\ sel.foundLang = <<sel.tracks[1].languageCode,
                                    IF sel.tracks[1].kind = "asr" THEN " (auto)" ELSE "">>

\* The preferred language selected has its asr track listed before its
\* human-authored track, and the human-authored one is selected.
C5_Witness ==
    /\ sel.pc = "selected"
    /\ InPrefs(SelectedLang)
    /\ \E t \in 1..Len(sel.tracks), u \in 1..Len(sel.tracks) :
           /\ t < u
           /\ sel.tracks[t].languageCode = SelectedLang /\ sel.tracks[t].kind = "asr"
           /\ sel.tracks[u].languageCode = SelectedLang /\ sel.tracks[u].kind = NoKind
           /\ sel.bestTrackUrl = sel.tracks[u].baseUrl
    /\ sel.foundLang[2] = ""

----------------------------------------------------------------------------
(* Fact Checker and credential checks *)

UnknownRecord ==
    [type |-> "factCheck", verdict |-> "Unknown", confidence |-> "null",
     explanation |-> "No explanation provided.", sources |-> <<>>]

NotValidJson == <<"Fact-check response from Gemini was not valid JSON.">>

FactChecks == {o \in Ops : ops[o].kind = "factCheckSelection"}

\* The fact-check call returned OK with a text payload that is not valid JSON.
Unparseable(o) ==
    /\ ops[o].pc = "done"
    /\ ops[o].factResponse.kind = "text"
    /\ ops[o].factResponse.json = "invalid"

\* The fact-check call returned OK with a JSON value that has none of the
\* four fields.
Fieldless(o) ==
    /\ ops[o].pc = "done"
    /\ ops[o].factResponse.kind \in {"text", "content"}
    /\ \/ ops[o].factResponse.json = "number"
       \/ ops[o].factResponse.json = "object" /\ ops[o].factResponse.obj = EmptyObject

C7_ErrorResultBeforeThrow ==
    \A o \in FactChecks :
        ops[o].failed # NoError =>
            \E k \in Terminals(o) : ops[o].sent[k].error # NoError

YouTubeKeyNotSet == <<"YouTube API Key not set in options.">>
GeminiKeyNotSet == <<"Gemini API Key not set in options.">>

\* fetchAndAnalyzeComments or performFactCheck has loaded the keys, and the
\* Gemini key it got is absent.
GeminiKeyAbsent(o) ==
    /\ ops[o].kind \in {"analyzeComments", "factCheckSelection"}
    /\ \E k \in 1..Len(ops[o].outcomes) : ops[o].outcomes[k] \in {"keys", "storageError"}
    /\ ~Truthy(ops[o].geminiKey)

\* C8: with the Gemini key absent, fetchAndAnalyzeComments and
\* performFactCheck each fail with the Gemini "key not set" error and issue
\* no network request.
C8_GeminiKeyNotSetNoRequest ==
    \A o \in Ops :
        GeminiKeyAbsent(o) =>
            /\ ops[o].pc = "done"
            /\ ops[o].failed = GeminiKeyNotSet
            /\ ops[o].reqs = <<>>

\* C8 as amended: with the Gemini key absent, performFactCheck fails with the
\* Gemini "key not set" error; fetchAndAnalyzeComments fails with the Gemini
\* "key not set" error when the YouTube key is present and with the YouTube
\* "key not set" error when that key is absent too; neither issues a network
\* request.
C8_KeyNotSetNoRequest ==
    \A o \in Ops :
        GeminiKeyAbsent(o) =>
            /\ ops[o].pc = "done"
            /\ ops[o].failed =
                   IF ops[o].kind = "analyzeComments" /\ ~Truthy(ops[o].youtubeKey)
                   THEN YouTubeKeyNotSet ELSE GeminiKeyNotSet
            /\ ops[o].reqs = <<>>

\* A comment analysis found the YouTube key but no Gemini key, and failed
\* with the Gemini error.
C8_Witness ==
    \E o \in Ops :
        /\ GeminiKeyAbsent(o)
        /\ ops[o].kind = "analyzeComments"
        /\ Truthy(ops[o].youtubeKey)
        /\ ops[o].failed = GeminiKeyNotSet

----------------------------------------------------------------------------
(* Comment batches *)

\* The step is the handling of one batch's classifier response by o.
BatchStep(o) == Len(ops'[o].batchLog) = Len(ops[o].batchLog) + 1

HandledBatch(o) == ops'[o].batchLog[Len(ops'[o].batchLog)]

NeutralEntries(lo, hi) ==
    [k \in 1..(hi - lo + 1) |-> [id |-> lo + k - 1, sentiment |-> "neutral"]]

\* C9: a batch whose classifier call succeeds with a text that is empty,
\* malformed or valid JSON but no array has every comment added to the
\* sample labelled neutral; the neutral count and totalAnalyzed grow by the
\* batch size.
C9_UnparseableBatchAllNeutral ==
    [][\A o \in Ops :
          (BatchStep(o) /\ HandledBatch(o).kind \in {"emptyText", "malformed", "nonArray"}) =>
              LET b == HandledBatch(o)
              IN /\ ops'[o].analyzedComments =
                        ops[o].analyzedComments \o NeutralEntries(b.lo, b.hi)
                 /\ ops'[o].sentimentCounts =
                        [ops[o].sentimentCounts EXCEPT !.neutral = @ + (b.hi - b.lo + 1)]
                 /\ Len(ops'[o].analyzedComments) =
                        Len(ops[o].analyzedComments) + (b.hi - b.lo + 1)]_vars

ClassifierRequests(o) ==
    {k \in 1..Len(ops[o].reqs) : ops[o].reqs[k].to = "classifier"}

\* C10: a batch whose classifier call returns a non-success response leaves
\* totalAnalyzed and the three counts unchanged, has none of its comments in
\* the sample, is not requested again, and the batches after it are still
\* processed (the next one is requested, or the result is sent).
C10_FailedBatchSkipped ==
    /\ [](\A o \in Ops :
            /\ \A b \in 1..Len(ops[o].batchLog) :
                   ops[o].batchLog[b].kind = "httpError" =>
                       \A e \in 1..Len(ops[o].analyzedComments) :
                           ops[o].analyzedComments[e].id \notin
                               ops[o].batchLog[b].lo..ops[o].batchLog[b].hi
            /\ \A j \in ClassifierRequests(o), k \in ClassifierRequests(o) :
                   j # k => ops[o].reqs[j].n # ops[o].reqs[k].n)
    /\ [][\A o \in Ops :
            (BatchStep(o) /\ HandledBatch(o).kind = "httpError") =>
                /\ ops'[o].analyzedComments = ops[o].analyzedComments
                /\ ops'[o].sentimentCounts = ops[o].sentimentCounts
                /\ ops'[o].i = ops[o].i + batchSize
                /\ IF ops'[o].i < ops'[o].fetchedCount
                   THEN /\ ops'[o].pc = "batch"
                        /\ ops'[o].reqs[Len(ops'[o].reqs)].to = "classifier"
                        /\ ops'[o].reqs[Len(ops'[o].reqs)].n = ops'[o].i
                        /\ Len(ops'[o].reqs) = Len(ops[o].reqs) + 1
                   ELSE /\ ops'[o].pc = "done"
                        /\ ops'[o].failed = NoError
                        /\ \E k \in 1..Len(ops'[o].sent) :
                               /\ ops'[o].sent[k].action = "displayCommentAnalysis"
                               /\ ops'[o].sent[k].data.type = "analysis"
                               /\ ops'[o].sent[k].data.totalAnalyzed =
                                      Len(ops[o].analyzedComments)]_vars

\* The first batch failed, the second was classified, and the result holds
\* comments of the second batch only.
C10_Witness ==
    \E o \in Ops :
        /\ ops[o].pc = "done"
        /\ Len(ops[o].batchLog) = 2
        /\ ops[o].batchLog[1].kind = "httpError"
        /\ ops[o].batchLog[2].kind = "array"
        /\ ops[o].analyzedComments # <<>>
        /\ \E k \in 1..Len(ops[o].sent) :
               /\ ops[o].sent[k].action = "displayCommentAnalysis"
               /\ ops[o].sent[k].data # NoData

----------------------------------------------------------------------------
(* Transcript stages *)

Transcripts == {o \in Ops : ops[o].kind = "getTranscript"}

\* What the watch-page fetch and the caption-track fetch of o returned
\* ("none" while it has not returned).
PageOutcome(o) == IF Len(ops[o].outcomes) >= 2 THEN ops[o].outcomes[2] ELSE "none"

TrackOutcome(o) ==
    IF PageOutcome(o) = "tracks" /\ Len(ops[o].outcomes) >= 3
    THEN ops[o].outcomes[3] ELSE "none"

\* The caption track was fetched and has no timed-text entry, or each of its
\* entries is empty once stripped and trimmed.
ZeroLengthText(o) ==
    /\ TrackOutcome(o) = "ok"
    /\ \A k \in 1..Len(ops[o].lines) : ops[o].lines[k] = ""

ScrapeFailed(o) ==
    \/ PageOutcome(o) \in {"notOk", "noBlob", "badJson", "noCaptions", "noTracks"}
    \/ TrackOutcome(o) = "notOk"
    \/ ZeroLengthText(o)

ScrapeSucceeded(o) == TrackOutcome(o) = "ok" /\ ~ZeroLengthText(o)

\* What the fallback stage of o ended with ("none" while it has not ended,
\* or has not run).
FallbackOutcome(o) ==
    IF ops[o].fallbacks = 0 \/ ops[o].pc # "done" THEN "none"
    ELSE ops[o].outcomes[Len(ops[o].outcomes)]

CaptionRequests(o) ==
    {k \in 1..Len(ops[o].reqs) : ops[o].reqs[k].to = "captions"}

\* C11: every failure of the page-scrape stage (page fetch not OK, blob not
\* found or not parseable, no captions section, no tracks, track fetch not
\* OK, no extracted text) invokes the API fallback exactly once, a success
\* never does, and a failed fallback ends the operation with one error
\* result carrying the fallback's message, no further request made.
C11_FallbackOncePerFailure ==
    \A o \in Transcripts :
        /\ ScrapeFailed(o) => ops[o].fallbacks = 1
        /\ ScrapeSucceeded(o) => ops[o].fallbacks = 0
        /\ FallbackOutcome(o) \in {"keys", "storageError"} =>
               /\ ops[o].thrown = <<"YouTube API Key not set in options.">>
               /\ Cardinality(Terminals(o)) = 1
               /\ \A k \in Terminals(o) :
                      /\ ops[o].sent[k].data = NoData
                      /\ ops[o].sent[k].error =
                             <<"Error: ", "YouTube API Key not set in options.">>
               /\ CaptionRequests(o) = {}
        /\ FallbackOutcome(o) \in {"notOk", "noItems"} =>
               /\ Cardinality(Terminals(o)) = 1
               /\ \A k \in Terminals(o) :
                      /\ ops[o].sent[k].data = NoData
                      /\ ops[o].sent[k].error =
                             <<"Transcript check via API failed: ", FallbackOutcome(o)>>
               /\ Cardinality(CaptionRequests(o)) = 1
               /\ ops[o].reqs[Len(ops[o].reqs)].to = "captions"

\* C15: when the text recovered from the selected caption track is
\* zero-length, no displayTranscript message carrying a transcript is sent
\* and the API fallback is invoked.
C15_EmptyTranscriptIsFailure ==
    \A o \in Transcripts :
        ZeroLengthText(o) =>
            /\ \A k \in Terminals(o) : ops[o].sent[k].data = NoData
                                        \/ ops[o].sent[k].data.type # "transcript"
            /\ ops[o].fallbacks >= 1

----------------------------------------------------------------------------
(* Comment pagination and aggregation *)

CommentOps == {o \in Ops : ops[o].kind = "analyzeComments"}

PageRequests(o) ==
    {k \in 1..Len(ops[o].reqs) : ops[o].reqs[k].to = "commentThreads"}

\* The step is the arrival of a page of comments at o.
PageStep(o) == ops[o].pc = "commentPage" /\ ops'[o] # ops[o]

\* The step issues a request for a further page.
PageRequested(o) ==
    /\ Len(ops'[o].reqs) = Len(ops[o].reqs) + 1
    /\ ops'[o].reqs[Len(ops'[o].reqs)].to = "commentThreads"

\* C12: with the endpoint returning no more items than asked for, every
\* page request asks for min(maxResults - fetched so far, 100) items, a
\* number in 1..100; the accumulated count never exceeds maxResults; a
\* further page is requested exactly when the page that arrived was OK, came
\* with a continuation token and left the count below the cap.
C12_PaginationWithinCap ==
    /\ [](\A o \in CommentOps :
            /\ \A k \in PageRequests(o) : ops[o].reqs[k].n \in 1..pageLimit
            /\ ops[o].fetchedCount <= maxResultsDefault
            /\ ops[o].pc = "commentPage" =>
                   ops[o].reqs[Len(ops[o].reqs)].n =
                       IF maxResultsDefault - ops[o].fetchedCount < pageLimit
                       THEN maxResultsDefault - ops[o].fetchedCount ELSE pageLimit)
    /\ [][\A o \in CommentOps :
            PageStep(o) =>
                (PageRequested(o) <=>
                    /\ ops'[o].outcomes[Len(ops'[o].outcomes)] = "ok"
                    /\ ops'[o].fetchedCount < env.comments
                    /\ ops'[o].fetchedCount < maxResultsDefault)]_vars

\* The video has more comments than the cap: three pages were requested, the
\* last for the rest of the cap only, and the count stopped at the cap while
\* the endpoint still gave a continuation token.
C12_Witness ==
    \E o \in CommentOps :
        /\ ops[o].pc = "batch"
        /\ env.comments > maxResultsDefault
        /\ ops[o].fetchedCount = maxResultsDefault
        /\ Cardinality(PageRequests(o)) = 3
        /\ \E k \in PageRequests(o) : ops[o].reqs[k].n < env.pageSize

\* The comment-analysis results o has sent.
AnalysisResults(o) ==
    {ops[o].sent[k].data : k \in {j \in 1..Len(ops[o].sent) :
                                    ops[o].sent[j].data.type = "analysis"}}

\* How many entries of the sample carry the label.
Labelled(sample, label) ==
    Cardinality({e \in 1..Len(sample) : sample[e].sentiment = label})

\* C13: in every comment-analysis result each sample entry carries a label
\* in {positive, negative, neutral}, and for each label the count equals the
\* number of sample entries with that label.
C13_SampleLabelsRecognized ==
    \A o \in CommentOps : \A r \in AnalysisResults(o) :
        /\ \A e \in 1..Len(r.sampleAnalyzedComments) :
               r.sampleAnalyzedComments[e].sentiment \in Recognized
        /\ \A l \in Recognized :
               r.sentiment[l] = Labelled(r.sampleAnalyzedComments, l)

\* The number of comments given the label by the first k batches.
RECURSIVE GivenUpTo(_, _, _)
GivenUpTo(log, k, label) ==
    IF k = 0 THEN 0 ELSE GivenUpTo(log, k - 1, label) + log[k].given[label]

AllComplete(o) == \A b \in 1..Len(ops[o].batchLog) : ops[o].batchLog[b].complete

\* C14: when every classifier call returns an array with exactly one entry
\* per comment of its batch and a recognized sentiment, the result has
\* totalAnalyzed = totalFetched and each count is the number of comments
\* given that label; each such batch adds its size to the sample and its
\* labels to the counts.
C14_CompleteResponsesCountAll ==
    /\ [](\A o \in CommentOps : \A r \in AnalysisResults(o) :
            AllComplete(o) =>
                /\ r.totalAnalyzed = r.totalFetched
                /\ r.totalFetched = ops[o].fetchedCount
                /\ \A l \in Recognized :
                       r.sentiment[l] = GivenUpTo(ops[o].batchLog, Len(ops[o].batchLog), l))
    /\ [][\A o \in CommentOps :
            (BatchStep(o) /\ HandledBatch(o).complete) =>
                LET b == HandledBatch(o)
                IN /\ Len(ops'[o].analyzedComments) =
                          Len(ops[o].analyzedComments) + (b.hi - b.lo + 1)
                   /\ \A l \in Recognized :
                          ops'[o].sentimentCounts[l] = ops[o].sentimentCounts[l] + b.given[l]
                   /\ \A c \in b.lo..b.hi :
                          \E e \in 1..Len(ops'[o].analyzedComments) :
                              ops'[o].analyzedComments[e].id = c]_vars

\* Comments 1 and 2 were labelled positive and negative:
\* {totalFetched: 2, totalAnalyzed: 2, sentiment: {1, 1, 0}}.
C14_Witness ==
    \E o \in CommentOps : \E r \in AnalysisResults(o) :
        /\ AllComplete(o)
        /\ r.totalFetched = 2 /\ r.totalAnalyzed = 2
        /\ r.sentiment = [positive |-> 1, negative |-> 1, neutral |-> 0]

\* C16: in every comment-analysis result each fetched comment appears at
\* most once in the sample, and totalAnalyzed <= totalFetched.
C16_SampleWithinFetched ==
    \A o \in CommentOps : \A r \in AnalysisResults(o) :
        /\ r.totalAnalyzed <= r.totalFetched
        /\ \A d \in 1..Len(r.sampleAnalyzedComments), e \in 1..Len(r.sampleAnalyzedComments) :
               r.sampleAnalyzedComments[d].id = r.sampleAnalyzedComments[e].id => d = e

----------------------------------------------------------------------------
(* The credential cache shared by concurrent operations *)

\* The options page saves other keys, or removes them, in
\* chrome.storage.local.
SaveKeys ==
    /\ \E keys \in Storages({"undefined"}) :
         /\ keys # storage
         /\ storage' = keys
    /\ UNCHANGED <<YOUTUBE_API_KEY, GEMINI_API_KEY, ops, inbox, queue, popupOpen,
                   isProcessing, transcriptBtnDisabled, commentsBtnDisabled,
                   pendingQuery, env, sel>>

\* Requests from extension pages, no popup open; the keys are stored when
\* the service worker starts.
InitKeys ==
    /\ storage = [youtubeApiKey |-> "AIza-youtube", geminiApiKey |-> "AIza-gemini"]
    /\ InitBackground
    /\ InitPopup
    /\ popupOpen = FALSE
    /\ env \in Envs(MaxCommentsUI, {pageLimit}, MaxTracksUI, MaxLinesUI, MaxEntriesUI)
    /\ sel = NoSel

NextKeys ==
    \/ SaveKeys
    \/ \E o \in Ops : Step(o)

SpecKeys == InitKeys /\ [][NextKeys]_vars

\* C18: every classifier request of a comment analysis carries the
\* non-empty Gemini key that this operation loaded and checked at its
\* start, whatever other operations load into the shared cache meanwhile.
C18_ClassifierUsesLoadedKey ==
    \A o \in CommentOps : \A k \in ClassifierRequests(o) :
        /\ Truthy(ops[o].reqs[k].key)
        /\ ops[o].reqs[k].key = ops[o].geminiKey

----------------------------------------------------------------------------
(* The popup comes to rest *)

\* Every external call returns, every callback runs and every message sent
\* to the open popup is delivered; nobody has to click.
FairUI ==
    /\ WF_vars(QueryCallback)
    /\ WF_vars(ReceiveFromPopup)
    /\ WF_vars(Deliver)
    /\ \A o \in Ops : WF_vars(Handler(o))

\* The popup is open; both keys are stored or neither is; the classifier
\* returns no array elements.
InitUIFair ==
    /\ storage \in {st \in Storages({"undefined"}) :
                        (st.youtubeApiKey = "undefined") <=> (st.geminiApiKey = "undefined")}
    /\ InitBackground
    /\ InitPopup
    /\ popupOpen = TRUE
    /\ env \in Envs(MaxCommentsUI, {pageLimit}, MaxTracksUI, MaxLinesUI, 0)
    /\ sel = NoSel

SpecUIFair == InitUIFair /\ [][NextUI]_vars /\ FairUI

PopupIdle == ~isProcessing /\ ~transcriptBtnDisabled /\ ~commentsBtnDisabled

\* Nothing the popup started is under way and nothing is left to deliver.
Quiescent ==
    /\ pendingQuery = <<>>
    /\ inbox = <<>>
    /\ queue = <<>>
    /\ \A o \in Ops : ops[o].pc \in {"idle", "done"}

\* C17: the popup is idle (isProcessing false, both buttons enabled) whenever
\* the operations it started have ended and their messages are delivered,
\* and only a click ends that; it is idle again and again, so no outcome
\* leaves it in the processing state; and unless the user clicks forever it
\* eventually reaches that state of rest and stays in it.
C17_PopupComesToRest ==
    /\ [](Quiescent => PopupIdle)
    /\ []<>PopupIdle
    /\ ([]<><<Click>>_vars \/ <>[](Quiescent /\ PopupIdle))
    /\ [][(Quiescent /\ ~(Quiescent' /\ PopupIdle')) => Len(pendingQuery') = 1]_vars

\* A transcript operation of the popup went through the failing page stage
\* and the failing fallback, and the popup is idle again.
C17_Witness ==
    /\ Quiescent
    /\ PopupIdle
    /\ \E o \in PopupOps :
          /\ ops[o].pc = "done"
          /\ ops[o].kind = "getTranscript"
          /\ ops[o].fallbacks = 1
          /\ ops[o].thrown # NoError

====
